---- MODULE Spec2Model ----
(***************************************************************************)
(* Model of setup_project.py, the interactive generator of the Python      *)
(* project template: placeholder rendering, the template walk, the         *)
(* Removal List cleanup and the two workflows of main().                   *)
(*                                                                         *)
(* Text is a sequence of symbols.  A symbol stands for a run of characters *)
(* that the program never splits: "{{" and "}}" are the brace pairs, an    *)
(* upper-case name such as "PROJECT_NAME" is the inside of a token, "/" is *)
(* the path separator, "CR" and "LF" are the two newline bytes and "xFF"   *)
(* is a byte that is not valid UTF-8.  A path is the text of its string    *)
(* form, so "x in str(rel_path)" is the contiguous-subsequence test.       *)
(* The file system is a function from absolute paths to file data; a       *)
(* directory exists exactly when a file lies under it.                     *)
(***************************************************************************)
EXTENDS Integers, Sequences, FiniteSets, TLC

VARIABLES
    fs,         \* the file system: absolute path -> data
    fs0,        \* the file system when the run started (history)
    info,       \* the Configuration Record: key -> value
    platform,   \* "posix" or "nt": decides os.linesep in write_text
    pc,         \* position of the run
    chunks,     \* the pieces the rendered text was assembled from (history)
    w_src,      \* process_template_directory: src_dir
    w_dst,      \* process_template_directory: dst_dir
    skip_files, \* process_template_directory: the Exclusion Set
    w_first,    \* the files under src_dir when the walk began (history)
    w_yielded,  \* the paths rglob has yielded so far
    w_log,      \* the copies made by the walk: <<source file, written path>> (history)
    w_ret,      \* where the run continues after the walk
    cwd,        \* Path.cwd()
    mode,       \* the workflow main() chose: "new" or "in_place"
    outcomes,   \* the external commands run so far: command -> how it ended
    warnings,   \* the warnings printed so far
    steps,      \* the workflow steps executed so far, in order (history)
    exit_status,\* how the process ended: "0", "1" or the exception that killed it
    prompted,   \* a prompt was shown to the operator
    report,     \* files_with_placeholders of the verification scan
    in_conf,    \* the arguments of the prompt or validator call under way
    in_answers, \* the lines the operator is still going to type
    in_ret      \* what the call returned

vars == <<fs, fs0, info, platform, pc, chunks,
          w_src, w_dst, skip_files, w_first, w_yielded, w_log, w_ret,
          cwd, mode, outcomes, warnings, steps, exit_status, prompted, report,
          in_conf, in_answers, in_ret>>

in_vars == <<in_conf, in_answers, in_ret>>

run_vars == <<cwd, mode, outcomes, warnings, exit_status, prompted, report>>

walk_vars == <<w_src, w_dst, skip_files, w_first, w_yielded, w_log, w_ret>>

(***************************************************************************)
(* Bounds.                                                                 *)
(***************************************************************************)
MaxChunks == 3     \* pieces of a rendered text
MaxFiles == 2      \* files of a walked source tree

(***************************************************************************)
(* Strings.                                                                *)
(***************************************************************************)
Range(s) == {s[i] : i \in 1..Len(s)}

\* s[i..i+Len(t)-1] = t
MatchAt(s, t, i) ==
    /\ i + Len(t) - 1 <= Len(s)
    /\ \A j \in 1..Len(t) : s[i + j - 1] = t[j]

\* Python's "t in s" for non-empty t
Contains(s, t) == \E i \in 1..Len(s) : MatchAt(s, t, i)

StartsWith(s, t) == MatchAt(s, t, 1)

RECURSIVE str_replace_first(_, _, _)
\* s.replace(old, new, 1): only the first occurrence is replaced
str_replace_first(s, old, new) ==
    IF Len(s) < Len(old) THEN s
    ELSE IF MatchAt(s, old, 1)
         THEN new \o SubSeq(s, Len(old) + 1, Len(s))
         ELSE <<Head(s)>> \o str_replace_first(Tail(s), old, new)

RECURSIVE str_replace(_, _, _)
\* Python's s.replace(old, new), old non-empty: leftmost, non-overlapping
str_replace(s, old, new) ==
    IF ~Contains(s, old) THEN s
    ELSE IF MatchAt(s, old, 1)
         THEN new \o str_replace(SubSeq(s, Len(old) + 1, Len(s)), old, new)
         ELSE <<Head(s)>> \o str_replace(Tail(s), old, new)

RECURSIVE Flatten(_)
Flatten(ss) == IF ss = <<>> THEN <<>> ELSE Head(ss) \o Flatten(Tail(ss))

(***************************************************************************)
(* The Configuration Record (collect_project_info).                        *)
(***************************************************************************)
\* the keys in the order collect_project_info inserts them (data_sources,
\* asked only for project type "data", is not part of the modelled records)
Keys == << "project_name", "project_description", "author_name", "author_email",
           "github_username", "project_type", "min_python_version", "license",
           "use_docker", "use_pre_commit", "use_github_actions", "use_jupyter",
           "use_spark", "use_cli", "setup_claude_md", "python_package_name",
           "project_slug" >>

KeySet == Range(Keys)

BoolKeys == {"use_docker", "use_pre_commit", "use_github_actions", "use_jupyter",
             "use_spark", "use_cli", "setup_claude_md"}

FlagKeys == <<"use_docker", "use_pre_commit", "use_github_actions", "use_jupyter",
              "use_spark">>

\* key.upper()
key_upper(k) ==
    CASE k = "project_name" -> "PROJECT_NAME"
      [] k = "project_description" -> "PROJECT_DESCRIPTION"
      [] k = "author_name" -> "AUTHOR_NAME"
      [] k = "author_email" -> "AUTHOR_EMAIL"
      [] k = "github_username" -> "GITHUB_USERNAME"
      [] k = "project_type" -> "PROJECT_TYPE"
      [] k = "min_python_version" -> "MIN_PYTHON_VERSION"
      [] k = "license" -> "LICENSE"
      [] k = "use_docker" -> "USE_DOCKER"
      [] k = "use_pre_commit" -> "USE_PRE_COMMIT"
      [] k = "use_github_actions" -> "USE_GITHUB_ACTIONS"
      [] k = "use_jupyter" -> "USE_JUPYTER"
      [] k = "use_spark" -> "USE_SPARK"
      [] k = "use_cli" -> "USE_CLI"
      [] k = "setup_claude_md" -> "SETUP_CLAUDE_MD"
      [] k = "python_package_name" -> "PYTHON_PACKAGE_NAME"
      [] k = "project_slug" -> "PROJECT_SLUG"

\* f"{{{{{key.upper()}}}}}"
placeholder(k) == <<"{{", key_upper(k), "}}">>

\* str(value)
str_of(inf, k) ==
    IF k \in BoolKeys THEN (IF inf[k] THEN <<"True">> ELSE <<"False">>) ELSE inf[k]

\* name.replace(a, b) on one-character symbols
map_sym(s, a, b) == [i \in 1..Len(s) |-> IF s[i] = a THEN b ELSE s[i]]

\* the record collect_project_info returns for these answers; the two derived
\* fields are computed from project_name as lines 237-238 do
collect_project_info(pn, pd, an, flags, claude) ==
    [k \in KeySet |->
        CASE k = "project_name" -> pn
          [] k = "project_description" -> pd
          [] k = "author_name" -> an
          [] k = "author_email" -> <<"a@b.co">>
          [] k = "github_username" -> <<"bob">>
          [] k = "project_type" -> <<"library">>
          [] k = "min_python_version" -> <<"3.9">>
          [] k = "license" -> <<"MIT">>
          [] k = "use_cli" -> FALSE
          [] k = "setup_claude_md" -> claude
          [] k = "python_package_name" -> map_sym(pn, "-", "_")
          [] k = "project_slug" -> map_sym(map_sym(pn, " ", "-"), "_", "-")
          [] OTHER -> flags[k]]

(***************************************************************************)
(* Placeholder Renderer.                                                   *)
(***************************************************************************)
RECURSIVE render_from(_, _, _)
\* lines 251-253 and 305-307: one str.replace per key, in dict order, each on
\* the result of the one before
render_from(s, inf, i) ==
    IF i > Len(Keys) THEN s
    ELSE render_from(str_replace(s, placeholder(Keys[i]), str_of(inf, Keys[i])), inf, i + 1)

RECURSIVE render_in_order(_, _, _, _)
\* lines 251-253 and 305-307 with the items of the record visited in the
\* order given: the replaces of order[i..], each on the result of the one before
render_in_order(s, inf, order, i) ==
    IF i > Len(order) THEN s
    ELSE render_in_order(str_replace(s, placeholder(order[i]), str_of(inf, order[i])),
                         inf, order, i + 1)

\* the whole loop; a text without "{{" holds no placeholder, so every replace
\* of the loop returns it as it is
render(s, inf) == IF \A j \in 1..Len(s) : s[j] # "{{" THEN s ELSE render_from(s, inf, 1)

RECURSIVE decode_text(_)
\* read_text(encoding='utf-8'): text mode with universal newlines, so CR LF
\* and a lone CR are both read as LF
decode_text(d) ==
    IF d = <<>> THEN <<>>
    ELSE IF Head(d) = "CR"
         THEN IF Len(d) >= 2 /\ d[2] = "LF"
              THEN <<"LF">> \o decode_text(SubSeq(d, 3, Len(d)))
              ELSE <<"LF">> \o decode_text(Tail(d))
         ELSE <<Head(d)>> \o decode_text(Tail(d))

\* write_text(encoding='utf-8'): text mode, LF is written as os.linesep
encode_text(s, plat) ==
    IF plat = "nt" THEN str_replace(s, <<"LF">>, <<"CR", "LF">>) ELSE s

\* read_text raises UnicodeDecodeError
undecodable(d) == "xFF" \in Range(d)

(***************************************************************************)
(* Paths.                                                                  *)
(***************************************************************************)
\* symbols that begin with a dot
DotSyms == {".py", ".md", ".yml", ".yaml", ".template", ".pyc", ".ipynb", ".data",
            ".dev", ".txt", ".git", ".github", ".dockerignore", ".pre-commit-config"}

Join(d, rel) == d \o <<"/">> \o rel

\* p lies inside directory d: what Path.relative_to(d) accepts for a file p
IsUnder(p, d) == Len(p) > Len(d) + 1 /\ StartsWith(p, d) /\ p[Len(d) + 1] = "/"

RelativeTo(p, d) == SubSeq(p, Len(d) + 2, Len(p))

\* index of the last "/" of p, 0 when there is none
LastSep(p) ==
    LET S == {i \in 1..Len(p) : p[i] = "/"}
    IN  IF S = {} THEN 0 ELSE CHOOSE i \in S : \A j \in S : j <= i

\* Path.name
Name(p) == SubSeq(p, LastSep(p) + 1, Len(p))

\* Path.parent
Parent(p) == SubSeq(p, 1, LastSep(p) - 1)

\* Path.suffix: the last dotted part of the name, empty for a name that is
\* only a dotted part (a dot-file)
suffix(p) ==
    IF Len(Name(p)) > 1 /\ p[Len(p)] \in DotSyms THEN p[Len(p)] ELSE ""

\* Path.with_suffix('')
with_suffix_empty(p) == IF suffix(p) = "" THEN p ELSE SubSeq(p, 1, Len(p) - 1)

\* name.endswith('.template')
ends_with_template(p) == Len(p) > 0 /\ p[Len(p)] = ".template"

(***************************************************************************)
(* File system.                                                            *)
(***************************************************************************)
is_file(f, p) == p \in DOMAIN f

is_dir(f, p) == \E q \in DOMAIN f : IsUnder(q, p)

exists(f, p) == is_file(f, p) \/ is_dir(f, p)

\* f with file p holding data d (created or overwritten)
write_file(f, p, d) == [q \in (DOMAIN f) \cup {p} |-> IF q = p THEN d ELSE f[q]]

\* f without the paths in gone
remove_paths(f, gone) == [q \in (DOMAIN f) \ gone |-> f[q]]

\* the files under directory d
files_under(f, d) == {q \in DOMAIN f : IsUnder(q, d)}

BinarySuffixes == {".pyc", ".pyo", ".so", ".dylib", ".dll"}

\* the file system after replace_template_vars(file_path, replacements)
replace_template_vars(f, p, inf, plat) ==
    IF suffix(p) \in BinarySuffixes THEN f
    ELSE IF ~is_file(f, p) THEN f               \* OSError, caught at line 259
    ELSE IF undecodable(f[p]) THEN f            \* UnicodeDecodeError, line 256
    ELSE write_file(f, p, encode_text(render(decode_text(f[p]), inf), plat))

(***************************************************************************)
(* File Selector.                                                          *)
(***************************************************************************)
F_Dockerfile_dev == <<"Dockerfile", ".dev">>
F_Dockerfile_data == <<"Dockerfile", ".data">>
F_docker_compose == <<"docker-compose", ".yml">>
F_dockerignore == <<".dockerignore">>
F_pre_commit == <<".pre-commit-config", ".yaml">>
F_github == <<".github">>
F_notebooks == <<"notebooks">>
F_spark_utils == <<"src", "/", "{{", "PROJECT_NAME", "}}", "/", "spark_utils", ".py">>
F_setup_spark == <<"scripts", "/", "setup_spark", ".py">>

\* the notebook group without its Docker file
compute_skip_files_short(inf) ==
    (IF ~inf["use_docker"]
        THEN {F_Dockerfile_dev, F_Dockerfile_data, F_docker_compose} ELSE {})
    \cup (IF ~inf["use_pre_commit"] THEN {F_pre_commit} ELSE {})
    \cup (IF ~inf["use_github_actions"] THEN {F_github} ELSE {})
    \cup (IF ~inf["use_jupyter"] THEN {F_notebooks} ELSE {})
    \cup (IF ~inf["use_spark"] THEN {F_spark_utils, F_setup_spark} ELSE {})

\* lines 268-284: the Exclusion Set of the walk
compute_skip_files(inf) ==
    (IF ~inf["use_docker"]
        THEN {F_Dockerfile_dev, F_Dockerfile_data, F_docker_compose} ELSE {})
    \cup (IF ~inf["use_pre_commit"] THEN {F_pre_commit} ELSE {})
    \cup (IF ~inf["use_github_actions"] THEN {F_github} ELSE {})
    \cup (IF ~inf["use_jupyter"] THEN {F_notebooks, F_Dockerfile_data} ELSE {})
    \cup (IF ~inf["use_spark"] THEN {F_spark_utils, F_setup_spark} ELSE {})

\* exclusion by the first path component instead of by substring
excluded_by_first_part(rel, skips) == \E sk \in skips : StartsWith(rel, sk)

\* line 300: any(skip in str(rel_path) for skip in skip_files)
excluded(rel, skips) == \E sk \in skips : Contains(rel, sk)

R_setup_project == <<"setup_project", ".py">>
R_ROADMAP == <<"ROADMAP", ".md">>
R_copier == <<"copier", ".yml">>
R_CLAUDE_template == <<"CLAUDE", ".md", ".template">>
R_docs_project_setup == <<"docs", "/", "GITHUB_PROJECT_SETUP", ".md">>
R_docs_repository_setup == <<"docs", "/", "REPOSITORY_SETUP", ".md">>
R_docs_labels == <<"docs", "/", "GITHUB_LABELS", ".md">>
R_wf_protection == <<".github", "/", "workflows", "/", "setup-repository-protection", ".yml">>
R_wf_ci_template == <<".github", "/", "workflows", "/", "ci", ".yml", ".template">>
R_wf_ci == <<".github", "/", "workflows", "/", "ci", ".yml">>
R_wf_release == <<".github", "/", "workflows", "/", "release", ".yml">>
R_docs == <<"docs">>

\* lines 509-520: the always-removed paths
base_files_to_remove ==
    <<R_setup_project, R_ROADMAP, R_copier, R_CLAUDE_template, R_docs_project_setup,
      R_docs_repository_setup, R_docs_labels, R_wf_protection, R_wf_ci_template>>

\* lines 547-551
template_docs == {R_docs_project_setup, R_docs_repository_setup, R_docs_labels}

\* lines 522-544: the list before the docs rule
flagged_files_to_remove(inf) ==
    base_files_to_remove
    \o (IF ~inf["use_jupyter"] THEN <<F_notebooks>> ELSE <<>>)
    \o (IF ~inf["use_spark"] THEN <<F_setup_spark>> ELSE <<>>)
    \o (IF ~inf["use_docker"]
           THEN <<F_Dockerfile_dev, F_Dockerfile_data, F_docker_compose, F_dockerignore>>
           ELSE <<>>)
    \o (IF ~inf["use_github_actions"] THEN <<R_wf_ci, R_wf_release>> ELSE <<>>)
    \o (IF ~inf["use_pre_commit"] THEN <<F_pre_commit>> ELSE <<>>)

\* lines 500-555: the Removal List
get_files_to_remove(inf) ==
    flagged_files_to_remove(inf)
    \o (IF template_docs \subseteq Range(flagged_files_to_remove(inf))
           THEN <<R_docs>> ELSE <<>>)

(***************************************************************************)
(* Template Walker (process_template_directory).                           *)
(***************************************************************************)
\* the directories above p
Ancestors(p) == {SubSeq(p, 1, i - 1) : i \in {j \in 1..Len(p) : p[j] = "/"}}

\* the walk without its self-copy guard
in_destination_unguarded(item, dst) == FALSE

\* lines 288-297: item.relative_to(dst_dir) does not raise
in_destination(item, dst) == IsUnder(item, dst)

\* lines 303-309: the rendered destination path, before the suffix is stripped
rendered_path(item, src, dst, inf) == Join(dst, render(RelativeTo(item, src), inf))

\* lines 309-315: the path the file is copied to
dst_path_of(item, src, dst, inf) ==
    IF ends_with_template(item)
    THEN with_suffix_empty(rendered_path(item, src, dst, inf))
    ELSE rendered_path(item, src, dst, inf)

\* line 310: dst_path.parent.mkdir(parents=True, exist_ok=True) raises when a
\* file stands where a directory is needed
mkdir_raises(f, p) == \E a \in Ancestors(p) : is_file(f, a)

\* line 318: shutil.copy2 writes into dst when dst is a directory
copy_target(f, item, dp) == IF is_dir(f, dp) THEN Join(dp, Name(item)) ELSE dp

\* line 318: copy2 raises (the target is a directory, or is the source itself)
copy_raises(f, item, dp) ==
    \/ is_dir(f, copy_target(f, item, dp))
    \/ copy_target(f, item, dp) = item

\* line 266 and 268-284: the walk starts
WalkBegin ==
    /\ pc = "walk_begin"
    /\ skip_files' = compute_skip_files(info)
    /\ w_first' = files_under(fs, w_src)
    /\ w_yielded' = {}
    /\ w_log' = {}
    /\ pc' = "walk"
    /\ steps' = Append(steps, "walk")
    /\ UNCHANGED <<fs, fs0, info, platform, chunks, w_src, w_dst, w_ret, run_vars>>
    /\ UNCHANGED in_vars

\* lines 286-321: one iteration of the loop.  rglob lists each directory when
\* it reaches it, so a file written earlier in the walk may be yielded later.
WalkItem ==
    /\ pc = "walk"
    /\ \E item \in files_under(fs, w_src) \ w_yielded :
        /\ w_yielded' = w_yielded \cup {item}
        /\ IF \/ in_destination(item, w_dst)
              \/ excluded(RelativeTo(item, w_src), skip_files)
           THEN UNCHANGED <<fs, w_log, pc, exit_status>>
           ELSE \E dp0 \in {rendered_path(item, w_src, w_dst, info)} :
                \E dp \in {dst_path_of(item, w_src, w_dst, info)} :
                \E tgt \in {copy_target(fs, item, dp)} :
                    IF mkdir_raises(fs, dp0) \/ copy_raises(fs, item, dp)
                    THEN /\ pc' = "crashed"
                         /\ exit_status' = "OSError"
                         /\ fs' = IF mode = "in_place"
                                  THEN remove_paths(fs, files_under(fs, w_dst)) ELSE fs
                         /\ UNCHANGED w_log
                    ELSE /\ fs' = replace_template_vars(
                                      write_file(fs, tgt, fs[item]), dp, info, platform)
                         /\ w_log' = w_log \cup {<<item, tgt>>}
                         /\ UNCHANGED <<pc, exit_status>>
    /\ UNCHANGED <<fs0, info, platform, chunks, w_src, w_dst, skip_files, w_first, w_ret,
                   cwd, mode, outcomes, warnings, steps, prompted, report>>
    /\ UNCHANGED in_vars

\* the loop ends: every file that was there when the walk began was yielded
WalkEnd ==
    /\ pc = "walk"
    /\ w_first \subseteq w_yielded
    /\ pc' = w_ret
    /\ UNCHANGED <<fs, fs0, info, platform, chunks, walk_vars, run_vars, steps>>
    /\ UNCHANGED in_vars

(***************************************************************************)
(* Inputs.                                                                 *)
(***************************************************************************)
Platforms == {"posix", "nt"}

ProjectName == <<"my", "-", "lib">>

FlagSet == Range(FlagKeys)

\* the defaults of the five feature prompts for a project of type "library"
DefaultFlags == [k \in FlagSet |-> k \in {"use_docker", "use_pre_commit", "use_github_actions"}]

TemplateDir == <<"T">>

P_README == <<"README", ".md">>
P_init == <<"src", "/", "{{", "PROJECT_NAME", "}}", "/", "__init__", ".py">>
P_spark_utils == F_spark_utils
P_setup_spark == F_setup_spark
P_notebook == <<"notebooks", "/", "eda", ".ipynb">>
P_notebooks_guide == <<"docs", "/", "notebooks", "-guide", ".md">>
P_Dockerfile_data == F_Dockerfile_data
P_Dockerfile_dev == F_Dockerfile_dev
P_dockerignore == F_dockerignore
P_pre_commit == F_pre_commit
P_ci == <<".github", "/", "workflows", "/", "ci", ".yml">>
P_CLAUDE_template == <<"CLAUDE", ".md", ".template">>
P_CLAUDE == <<"CLAUDE", ".md">>
P_setup_project == <<"setup_project", ".py">>
P_copier == <<"copier", ".yml">>
P_docs_labels == <<"docs", "/", "GITHUB_LABELS", ".md">>
P_flat_pkg == <<"{{", "PROJECT_NAME", "}}", "/", "core", ".py">>
P_old == <<"my", "-", "lib", "/", "old", ".txt">>
P_pyc == <<"lib", ".pyc">>
P_git_config == <<".git", "/", "config">>
P_docs_template == <<"docs", ".template">>

\* the relative paths a template tree is drawn from
TemplatePaths ==
    {P_README, P_init, P_spark_utils, P_setup_spark, P_notebook, P_notebooks_guide,
     P_Dockerfile_data, P_Dockerfile_dev, P_dockerignore, P_pre_commit, P_ci,
     P_CLAUDE_template, P_CLAUDE, P_setup_project, P_copier, P_docs_labels,
     P_flat_pkg, P_old, P_pyc, P_git_config, P_docs_template}

\* the data of each template file
TemplateContent(rel) ==
    CASE rel = P_README -> <<"{{", "PROJECT_NAME", "}}", "CR", "LF">>
      [] rel = P_init -> <<"{{", "PYTHON_PACKAGE_NAME", "}}">>
      [] rel = P_CLAUDE_template -> <<"ctx", "{{", "PROJECT_NAME", "}}">>
      [] rel = P_CLAUDE -> <<"old">>
      [] rel = P_pyc -> <<"xFF", "{{", "PROJECT_NAME", "}}">>
      [] rel = P_git_config -> <<"{{", "AUTHOR_NAME", "}}">>
      [] rel = P_old -> <<"{{", "PROJECT_NAME", "}}", "old">>
      [] OTHER -> <<"a">>

RECURSIVE SubsetsUpTo(_, _)
\* the subsets of S with at most k elements
SubsetsUpTo(S, k) ==
    IF k = 0 THEN {{}}
    ELSE LET R == SubsetsUpTo(S, k - 1) IN R \cup {T \cup {x} : T \in R, x \in S}

\* the file system holding the template files rels under root
mk_fs(root, rels) ==
    [p \in {Join(root, r) : r \in rels} |-> TemplateContent(RelativeTo(p, root))]

EmptyWalk ==
    /\ w_src = <<>> /\ w_dst = <<>> /\ skip_files = {} /\ w_first = {}
    /\ w_yielded = {} /\ w_log = {} /\ w_ret = ""

\* no command was run, nothing was printed, the process is running
FreshRun ==
    /\ outcomes = <<>> /\ warnings = {} /\ steps = <<>> /\ exit_status = "running"
    /\ prompted = FALSE /\ report = {}

\* no prompt is open and no validator is running
NoPrompt == in_conf = <<>> /\ in_answers = <<>> /\ in_ret = <<>>

(***************************************************************************)
(* SpecRender: replace_template_vars on one file.                          *)
(***************************************************************************)
ChunkSet ==
    {<<"a">>, placeholder("project_name"), placeholder("project_description"),
     placeholder("author_name"), <<"{{">>, <<"}}">>, <<"CR", "LF">>, <<"LF">>, <<"xFF">>}

RenderDescriptions ==
    {<<"desc">>, placeholder("author_name"), placeholder("project_name")}

RenderAuthors == {<<"bob">>, <<"PROJECT_NAME">>}

RenderPaths == {<<"out", "/", "f", ".md">>, <<"out", "/", "f", ".pyc">>}

InitRender ==
    /\ chunks \in UNION {[1..n -> ChunkSet] : n \in 1..MaxChunks}
    /\ platform \in Platforms
    /\ \E pd \in RenderDescriptions, an \in RenderAuthors :
          info = collect_project_info(ProjectName, pd, an, DefaultFlags, TRUE)
    /\ \E p \in RenderPaths : fs = (p :> Flatten(chunks))
    /\ fs0 = fs
    /\ pc = "render"
    /\ EmptyWalk
    /\ FreshRun /\ cwd = <<"out">> /\ mode = ""
    /\ NoPrompt

RenderedPath == CHOOSE p \in DOMAIN fs0 : TRUE

\* line 321 on its own: replace_template_vars(dst_path, info)
RenderFile ==
    /\ pc = "render"
    /\ fs' = replace_template_vars(fs, RenderedPath, info, platform)
    /\ pc' = "rendered"
    /\ UNCHANGED <<fs0, info, platform, chunks, walk_vars, run_vars, steps>>
    /\ UNCHANGED in_vars

NextRender == RenderFile

SpecRender == InitRender /\ [][NextRender]_vars

(***************************************************************************)
(* SpecWalk: process_template_directory on a template tree.                *)
(***************************************************************************)
OutsideDst == <<"out">>

\* the relative paths the walked trees are drawn from
WalkPaths ==
    {P_init, P_notebook, P_notebooks_guide, P_ci, P_CLAUDE_template, P_CLAUDE,
     P_flat_pkg, P_old, P_docs_template}

InitWalk ==
    /\ \E rels \in SubsetsUpTo(WalkPaths, MaxFiles) \ {{}} :
          fs = mk_fs(TemplateDir, rels)
    /\ fs0 = fs
    /\ \E fl \in [FlagSet -> BOOLEAN] :
          info = collect_project_info(ProjectName, <<"desc">>, <<"bob">>, fl, TRUE)
    /\ platform = "posix"
    /\ chunks = <<>>
    /\ pc = "walk_begin"
    /\ w_src = TemplateDir
    /\ w_dst \in {OutsideDst, Join(TemplateDir, ProjectName)}
    /\ w_ret = "walk_done"
    /\ skip_files = {} /\ w_first = {} /\ w_yielded = {} /\ w_log = {}
    /\ FreshRun /\ cwd = TemplateDir /\ mode = ""
    /\ NoPrompt

NextWalk == WalkBegin \/ WalkItem \/ WalkEnd

SpecWalk == InitWalk /\ [][NextWalk]_vars

(***************************************************************************)
(* Spec: main(), from the dependency check to the end of the run.          *)
(***************************************************************************)
MaxExtra == 1

\* line 709: the directory tempfile.TemporaryDirectory() creates
TempDir == <<"tmp">>

\* lines 787, 804 and 811: the directory the project is set up in
project_dir == IF mode = "in_place" THEN cwd ELSE Join(cwd, info["project_name"])

\* lines 620-635: all three template markers exist in the current directory
is_template_repo(f, dir) ==
    /\ exists(f, Join(dir, P_setup_project))
    /\ exists(f, Join(dir, P_copier))
    /\ exists(f, Join(dir, <<"src", "/", "{{", "PROJECT_NAME", "}}">>))

\* lines 638-644
is_git_initialized(f, dir) == exists(f, Join(dir, <<".git">>))

\* lines 342-497: the generated CLAUDE.md, an f-string over the record
claude_content(inf) ==
    <<"#">> \o str_of(inf, "project_name") \o <<"LF">>
        \o str_of(inf, "project_description") \o <<"LF">>
        \o str_of(inf, "author_name") \o <<"LF">>
        \o str_of(inf, "python_package_name")

\* lines 324-497: create_claude_md(dir, info)
create_claude_md(f, dir, inf) ==
    IF inf["setup_claude_md"] THEN write_file(f, Join(dir, P_CLAUDE), claude_content(inf)) ELSE f

\* lines 565-566 with the parent of the listed path removed instead
cleanup_remove_parent(f, full_path) ==
    remove_paths(f, {full_path} \cup files_under(f, Parent(full_path)))

\* lines 578-584: rmtree of a directory, unlink of a file, nothing when absent
cleanup_remove(f, full_path) ==
    remove_paths(f, {full_path} \cup files_under(f, full_path))

RECURSIVE cleanup_from(_, _, _, _)
\* lines 574-586: the loop over files_to_remove, from entry i on
cleanup_from(f, dir, list, i) ==
    IF i > Len(list) THEN f
    ELSE cleanup_from(cleanup_remove(f, Join(dir, list[i])), dir, list, i + 1)

\* lines 558-587
cleanup_template_files(f, dir, inf) == cleanup_from(f, dir, get_files_to_remove(inf), 1)

RECURSIVE copy_back(_, _, _, _)
\* lines 725-730: every scratch file is copied to the same relative path of
\* the project directory; the result is the file system and whether a copy raised
copy_back(f, items, tmp, dst) ==
    IF items = {} THEN [fs |-> f, raised |-> FALSE]
    ELSE LET item == CHOOSE x \in items : TRUE
             dp == Join(dst, RelativeTo(item, tmp))
         IN  IF mkdir_raises(f, dp) \/ copy_raises(f, item, dp)
             THEN [fs |-> f, raised |-> TRUE]
             ELSE copy_back(write_file(f, copy_target(f, item, dp), f[item]),
                            items \ {item}, tmp, dst)

\* line 709: leaving the with block removes the scratch directory
remove_temp(f) == remove_paths(f, files_under(f, TempDir))

\* line 600: the names the pattern [A-Z_]+ matches
UpperNames == {key_upper(k) : k \in KeySet} \cup {"UNKNOWN_FIELD"}

\* line 600: placeholder_pattern.search(content)
has_placeholder(s) ==
    \E i \in 1..(Len(s) - 2) : s[i] = "{{" /\ s[i + 1] \in UpperNames /\ s[i + 2] = "}}"

\* a scan that looks at Python files only
extensions_to_check_py_only == {".py"}

\* line 603
extensions_to_check == {".py", ".md", ".yml", ".yaml", ".toml", ".txt", ".sh", ".json"}

\* lines 590-617: the relative paths of the scanned files holding a placeholder
verify_template_placeholders(f, dir) ==
    {RelativeTo(p, dir) : p \in {q \in files_under(f, dir) :
        /\ suffix(q) \in extensions_to_check
        /\ ~undecodable(f[q])
        /\ has_placeholder(decode_text(f[q]))}}

\* lines 662-667: the four git commands, in order
GitCommands == <<"git init", "git add", "git commit", "git checkout">>

\* how an external command can end
Outcomes == {"ok", "nonzero", "timeout"}

\* the outcomes after more commands ran: the first n of cmds, the n-th ending as last
ran_commands(old, cmds, n, last) ==
    [c \in (DOMAIN old) \cup {cmds[i] : i \in 1..n} |->
        IF c \in DOMAIN old THEN old[c] ELSE IF c = cmds[n] THEN last ELSE "ok"]

\* the exception an outcome raises in subprocess.run(..., check=True, timeout=...)
raised_by(o) ==
    CASE o = "nonzero" -> "CalledProcessError"
      [] o = "timeout" -> "TimeoutExpired"
      [] o = "missing" -> "FileNotFoundError"
      [] OTHER -> ""

\* a handler that lets CalledProcessError through
caught_nothing(e) == FALSE

\* lines 671, 687 and 692: except subprocess.CalledProcessError
caught(e) == e = "CalledProcessError"

\* a dependency check that handles no exception
fatal_in_check_none(e) == FALSE

\* line 653: except (subprocess.CalledProcessError, FileNotFoundError): exit(1)
fatal_in_check(e) == e \in {"CalledProcessError", "FileNotFoundError"}

\* the new-directory steps with the cleanup moved before the git commands
next_step_cleanup_first(m, s) ==
    CASE s = "create_claude_md" -> "cleanup"
      [] s = "cleanup" -> IF m = "new" THEN "initialize_git" ELSE "copy_back"
      [] s = "initialize_git" -> "setup_development_environment"
      [] s = "setup_development_environment" -> "verify"

\* lines 829-841 and 717-742: the step main (m = "new") or setup_in_place
\* goes to after step s
next_step(m, s) ==
    CASE s = "create_claude_md" -> IF m = "new" THEN "initialize_git" ELSE "cleanup"
      [] s = "initialize_git" -> "setup_development_environment"
      [] s = "setup_development_environment" -> IF m = "new" THEN "cleanup" ELSE "verify"
      [] s = "cleanup" -> IF m = "new" THEN "verify" ELSE "copy_back"

\* lines 647-657: check_dependencies()
CheckDependencies ==
    /\ pc = "check_dependencies"
    /\ \E o \in Outcomes \cup {"missing"} :
        /\ outcomes' = ran_commands(outcomes, <<"uv --version">>, 1, o)
        /\ IF o = "ok"
           THEN pc' = "collect" /\ UNCHANGED <<exit_status, warnings>>
           ELSE IF fatal_in_check(raised_by(o))
                THEN /\ pc' = "exited"
                     /\ exit_status' = "1"
                     /\ warnings' = warnings \cup {"Missing required tool: uv"}
                ELSE /\ pc' = "crashed"
                     /\ exit_status' = raised_by(o)
                     /\ UNCHANGED warnings
    /\ steps' = Append(steps, "check_dependencies")
    /\ UNCHANGED <<fs, fs0, info, platform, chunks, walk_vars, cwd, mode,
                   prompted, report>>
    /\ UNCHANGED in_vars

\* the answers to the five feature prompts the runs are drawn from
FlagProfiles == {DefaultFlags, [k \in FlagSet |-> FALSE], [k \in FlagSet |-> TRUE]}

\* lines 122-240 and 770: collect_project_info()
Collect ==
    /\ pc = "collect"
    /\ \E fl \in FlagProfiles, claude \in BOOLEAN :
          info' = collect_project_info(ProjectName, <<"desc">>, <<"bob">>, fl, claude)
    /\ prompted' = TRUE
    /\ pc' = "detect"
    /\ steps' = Append(steps, "collect")
    /\ UNCHANGED <<fs, fs0, platform, chunks, walk_vars, cwd, mode, outcomes, warnings,
                   exit_status, report>>
    /\ UNCHANGED in_vars

\* lines 773-805: the workflow is chosen; setup_in_place starts its walk
Detect ==
    /\ pc = "detect"
    /\ \E in_place \in BOOLEAN :
          IF in_place
          THEN /\ mode' = "in_place"
               /\ w_src' = cwd
               /\ w_dst' = TempDir
               /\ w_ret' = "create_claude_md"
               /\ pc' = "walk_begin"
          ELSE /\ mode' = "new"
               /\ pc' = "check_destination"
               /\ UNCHANGED <<w_src, w_dst, w_ret>>
    /\ steps' = Append(steps, "detect")
    /\ UNCHANGED <<fs, fs0, info, platform, chunks, skip_files, w_first, w_yielded, w_log,
                   cwd, outcomes, warnings, exit_status, prompted, report>>
    /\ UNCHANGED in_vars

\* lines 811-826: an existing destination is removed or the run is cancelled
CheckDestination ==
    /\ pc = "check_destination"
    /\ \E overwrite \in BOOLEAN :
          IF exists(fs, project_dir) /\ ~overwrite
          THEN /\ pc' = "cancelled"
               /\ exit_status' = "0"
               /\ UNCHANGED <<fs, w_src, w_dst, w_ret>>
          ELSE IF is_file(fs, project_dir)
          THEN /\ pc' = "crashed"
               /\ exit_status' = "OSError"
               /\ UNCHANGED <<fs, w_src, w_dst, w_ret>>
          ELSE /\ fs' = remove_paths(fs, files_under(fs, project_dir))
               /\ w_src' = TemplateDir
               /\ w_dst' = project_dir
               /\ w_ret' = "create_claude_md"
               /\ pc' = "walk_begin"
               /\ UNCHANGED exit_status
    /\ steps' = Append(steps, "check_destination")
    /\ UNCHANGED <<fs0, info, platform, chunks, skip_files, w_first, w_yielded, w_log,
                   cwd, mode, outcomes, warnings, prompted, report>>
    /\ UNCHANGED in_vars

\* lines 717 and 829: create_claude_md in the directory the walk wrote; the
\* locals of process_template_directory are gone
CreateClaudeMd ==
    /\ pc = "create_claude_md"
    /\ fs' = create_claude_md(fs, w_dst, info)
    /\ pc' = next_step(mode, "create_claude_md")
    /\ steps' = Append(steps, "create_claude_md")
    /\ skip_files' = {} /\ w_first' = {} /\ w_yielded' = {} /\ w_log' = {}
    /\ UNCHANGED <<fs0, info, platform, chunks, w_src, w_dst, w_ret, run_vars>>
    /\ UNCHANGED in_vars

\* lines 721 and 838: cleanup_template_files(project_dir, info)
Cleanup ==
    /\ pc = "cleanup"
    /\ fs' = cleanup_template_files(fs, project_dir, info)
    /\ pc' = next_step(mode, "cleanup")
    /\ steps' = Append(steps, "cleanup")
    /\ UNCHANGED <<fs0, info, platform, chunks, walk_vars, run_vars>>
    /\ UNCHANGED in_vars

\* lines 725-730: the scratch copy is installed over the current directory
CopyBack ==
    /\ pc = "copy_back"
    /\ \E r \in {copy_back(fs, files_under(fs, TempDir), TempDir, project_dir)} :
        /\ fs' = remove_temp(r.fs)
        /\ IF r.raised
           THEN pc' = "crashed" /\ exit_status' = "OSError"
           ELSE pc' = "git_check" /\ UNCHANGED exit_status
    /\ steps' = Append(steps, "copy_back")
    /\ UNCHANGED <<fs0, info, platform, chunks, walk_vars, cwd, mode, outcomes, warnings,
                   prompted, report>>
    /\ UNCHANGED in_vars

\* lines 733-736: an existing repository is preserved
GitCheck ==
    /\ pc = "git_check"
    /\ IF is_git_initialized(fs, cwd)
       THEN pc' = "setup_development_environment" /\ steps' = Append(steps, "git_preserved")
       ELSE pc' = "initialize_git" /\ UNCHANGED steps
    /\ UNCHANGED <<fs, fs0, info, platform, chunks, walk_vars, run_vars>>
    /\ UNCHANGED in_vars

\* lines 660-672: initialize_git; command n is the first that fails (0: none)
InitializeGit ==
    /\ pc = "initialize_git"
    /\ \E n \in 0..Len(GitCommands), o \in Outcomes \cup {"missing"} :
        /\ (n = 0) = (o = "ok")
        /\ o = "missing" => n = 1
        /\ outcomes' = ran_commands(outcomes, GitCommands,
                                    IF n = 0 THEN Len(GitCommands) ELSE n, o)
        /\ fs' = IF n = 1 THEN fs
                 ELSE write_file(fs, Join(project_dir, <<".git", "/", "HEAD">>),
                                 <<GitCommands[IF n = 0 THEN Len(GitCommands) ELSE n - 1]>>)
        /\ IF o # "ok" /\ ~caught(raised_by(o))
           THEN pc' = "crashed" /\ exit_status' = raised_by(o) /\ UNCHANGED warnings
           ELSE /\ pc' = next_step(mode, "initialize_git")
                /\ warnings' = IF o = "nonzero"
                               THEN warnings \cup {"Git initialization failed"} ELSE warnings
                /\ UNCHANGED exit_status
    /\ steps' = Append(steps, "initialize_git")
    /\ UNCHANGED <<fs0, info, platform, chunks, walk_vars, cwd, mode, prompted, report>>
    /\ UNCHANGED in_vars

\* lines 675-694: setup_development_environment; uv sync ends as o1 and, when
\* it succeeds, pre-commit install ends as o2
SetupDevelopmentEnvironment ==
    /\ pc = "setup_development_environment"
    /\ \E o1 \in Outcomes, o2 \in Outcomes :
        /\ o1 # "ok" => o2 = "ok"
        /\ outcomes' = IF o1 = "ok"
                       THEN ran_commands(outcomes, <<"uv sync", "pre-commit install">>, 2, o2)
                       ELSE ran_commands(outcomes, <<"uv sync">>, 1, o1)
        /\ IF \E o \in {o1, o2} : o # "ok" /\ ~caught(raised_by(o))
           THEN /\ pc' = "crashed"
                /\ exit_status' = raised_by(IF o1 # "ok" THEN o1 ELSE o2)
                /\ UNCHANGED warnings
           ELSE /\ pc' = next_step(mode, "setup_development_environment")
                /\ warnings' = warnings
                      \cup (IF o1 = "nonzero"
                            THEN {"Development environment setup failed"} ELSE {})
                      \cup (IF o2 = "nonzero"
                            THEN {"Pre-commit installation skipped"} ELSE {})
                /\ UNCHANGED exit_status
    /\ steps' = Append(steps, "setup_development_environment")
    /\ UNCHANGED <<fs, fs0, info, platform, chunks, walk_vars, cwd, mode, prompted, report>>
    /\ UNCHANGED in_vars

\* lines 742 and 841: the verification scan, then the run ends normally
Verify ==
    /\ pc = "verify"
    /\ report' = verify_template_placeholders(fs, project_dir)
    /\ pc' = "done"
    /\ exit_status' = "0"
    /\ steps' = Append(steps, "verify")
    /\ UNCHANGED <<fs, fs0, info, platform, chunks, walk_vars, cwd, mode, outcomes,
                   warnings, prompted>>
    /\ UNCHANGED in_vars

\* the template trees the runs start in: the script itself, the other two
\* template markers or not, and up to MaxExtra more files
MarkerSets == {{P_setup_project, P_copier, P_init}, {P_setup_project, P_init}}

ExtraPaths ==
    {P_README, P_CLAUDE, P_CLAUDE_template, P_dockerignore, P_notebook, P_old,
     P_git_config, P_docs_labels, P_ci, P_notebooks_guide}

Init ==
    /\ \E markers \in MarkerSets, extra \in SubsetsUpTo(ExtraPaths, MaxExtra) :
          fs = mk_fs(TemplateDir, markers \cup extra)
    /\ fs0 = fs
    /\ info = <<>>
    /\ platform = "posix"
    /\ chunks = <<>>
    /\ pc = "check_dependencies"
    /\ cwd = TemplateDir
    /\ mode = ""
    /\ EmptyWalk
    /\ FreshRun
    /\ NoPrompt

Next ==
    \/ CheckDependencies
    \/ Collect
    \/ Detect
    \/ CheckDestination
    \/ WalkBegin
    \/ WalkItem
    \/ WalkEnd
    \/ CreateClaudeMd
    \/ Cleanup
    \/ CopyBack
    \/ GitCheck
    \/ InitializeGit
    \/ SetupDevelopmentEnvironment
    \/ Verify

Spec == Init /\ [][Next]_vars

(***************************************************************************)
(* The validators.  A string is a sequence of one-character strings.       *)
(***************************************************************************)
MaxNameLen == 3
MaxEmailLen == 6

LowerChars ==
    {"a", "b", "c", "d", "e", "f", "g", "h", "i", "j", "k", "l", "m",
     "n", "o", "p", "q", "r", "s", "t", "u", "v", "w", "x", "y", "z"}

UpperChars ==
    {"A", "B", "C", "D", "E", "F", "G", "H", "I", "J", "K", "L", "M",
     "N", "O", "P", "Q", "R", "S", "T", "U", "V", "W", "X", "Y", "Z"}

DigitChars == {"0", "1", "2", "3", "4", "5", "6", "7", "8", "9"}

\* "s" as a sequence of characters is written out: chars of the examples
S_my_lib == <<"m", "y", "-", "l", "i", "b">>
S_test == <<"t", "e", "s", "t">>

\* n copies of character c
Rep(c, n) == [i \in 1..n |-> c]

\* every character of s is in class
AllIn(s, class) == \A i \in 1..Len(s) : s[i] \in class

\* re.match with a pattern ending in $: the pattern may also end just before
\* a final newline; s ends with a newline, and s without it
ends_newline(s) == Len(s) >= 1 /\ s[Len(s)] = "\n"

chomp(s) == SubSeq(s, 1, Len(s) - 1)

\* line 37: [a-z][a-z0-9-]*[a-z0-9]
name_body(s) ==
    /\ Len(s) >= 2
    /\ s[1] \in LowerChars
    /\ s[Len(s)] \in LowerChars \cup DigitChars
    /\ AllIn(SubSeq(s, 2, Len(s) - 1), LowerChars \cup DigitChars \cup {"-"})

\* line 41: re.match(r'^[a-z][a-z0-9-]*[a-z0-9]$', name)
name_match(s) == name_body(s) \/ (ends_newline(s) /\ name_body(chomp(s)))

\* line 39: [a-z]
letter_body(s) == Len(s) = 1 /\ s[1] \in LowerChars

\* line 41: re.match(r'^[a-z]$', name)
letter_match(s) == letter_body(s) \/ (ends_newline(s) /\ letter_body(chomp(s)))

\* line 45
reserved_names ==
    {S_test, S_test \o <<"s">>, <<"s", "r", "c">>, <<"l", "i", "b">>, <<"b", "i", "n">>,
     <<"t", "m", "p">>, <<"t", "e", "m", "p">>, <<"b", "u", "i", "l", "d">>,
     <<"d", "i", "s", "t">>}

\* lines 45-47
is_reserved(name) == name \in reserved_names

\* lines 31-50
validate_project_name(name) ==
    IF Len(name) = 0 \/ Len(name) < 2 \/ Len(name) > 214 THEN FALSE
    ELSE IF ~(IF Len(name) = 1 THEN letter_match(name) ELSE name_match(name))
    THEN FALSE
    ELSE ~is_reserved(name)

\* line 19: the characters of the local part, [a-zA-Z0-9._%+-]
LocalChars == LowerChars \cup UpperChars \cup DigitChars \cup {".", "_", "%", "+", "-"}

\* line 19: the characters of the domain before its last label, [a-zA-Z0-9.-]
DomainChars == LowerChars \cup UpperChars \cup DigitChars \cup {".", "-"}

\* line 19: [a-zA-Z0-9._%+-]+@[a-zA-Z0-9.-]+\.[a-zA-Z]{2,} with @ at i and the
\* last dot at j
email_body(s) ==
    \E i \in 2..Len(s) : \E j \in (i + 2)..(Len(s) - 2) :
        /\ s[i] = "@"
        /\ AllIn(SubSeq(s, 1, i - 1), LocalChars)
        /\ AllIn(SubSeq(s, i + 1, j - 1), DomainChars)
        /\ s[j] = "."
        /\ AllIn(SubSeq(s, j + 1, Len(s)), LowerChars \cup UpperChars)

\* line 20: re.match(pattern, email)
email_match(s) == email_body(s) \/ (ends_newline(s) /\ email_body(chomp(s)))

\* the position of the last @ of s (0: none)
last_at(s) ==
    IF \E i \in 1..Len(s) : s[i] = "@"
    THEN CHOOSE i \in 1..Len(s) : s[i] = "@" /\ \A j \in (i + 1)..Len(s) : s[j] # "@"
    ELSE 0

\* line 24: email.rsplit('@', 1)
rsplit_at(s) ==
    [local |-> SubSeq(s, 1, last_at(s) - 1), domain |-> SubSeq(s, last_at(s) + 1, Len(s))]

\* a validator without the limit on the local part
local_too_long_never(local) == FALSE

\* line 25: len(local) > 64
local_too_long(local) == Len(local) > 64

\* lines 13-28
validate_email(email) ==
    IF Len(email) = 0 \/ Len(email) < 5 \/ Len(email) > 254 THEN FALSE
    ELSE IF ~email_match(email) THEN FALSE
    ELSE IF local_too_long(rsplit_at(email).local) \/ Len(rsplit_at(email).domain) > 253
    THEN FALSE
    ELSE TRUE

(***************************************************************************)
(* SpecValidate: one call of a validator.                                  *)
(***************************************************************************)
RECURSIVE StringsUpTo(_, _)
\* the strings over alphabet of length at most n
StringsUpTo(alphabet, n) ==
    IF n = 0 THEN {<<>>}
    ELSE LET R == StringsUpTo(alphabet, n - 1)
         IN  R \cup {Append(s, c) : s \in R, c \in alphabet}

S_a_b_co == <<"a", "@", "b", ".", "c", "o">>
S_not_an_email == <<"n", "o", "t", "-", "a", "n", "-", "e", "m", "a", "i", "l">>

NameInputs ==
    StringsUpTo({"a", "2", "-", "T", "\n"}, MaxNameLen)
        \cup reserved_names
        \cup {S_my_lib, <<"x", "2", "y">>, <<"T", "e", "s", "t">>, <<"-", "b", "a", "d">>,
              <<"a", "b", "-">>, Rep("a", 214), Rep("a", 215)}

EmailInputs ==
    StringsUpTo({"a", "@", ".", "-"}, MaxEmailLen)
        \cup {S_a_b_co, S_a_b_co \o <<"\n">>, S_not_an_email,
              Rep("a", 64) \o <<"@">> \o <<"b", ".", "c", "o">>,
              Rep("a", 65) \o <<"@">> \o <<"b", ".", "c", "o">>,
              Rep("a", 64) \o <<"@">> \o Rep("b", 186) \o <<".", "c", "o">>,
              Rep("a", 64) \o <<"@">> \o Rep("b", 187) \o <<".", "c", "o">>,
              Rep("a", 249) \o <<"@">> \o <<"b", ".", "c", "o">>}

\* nothing but the validator call is under way
Idle ==
    /\ fs = <<>> /\ fs0 = <<>> /\ info = <<>> /\ platform = "posix" /\ chunks = <<>>
    /\ cwd = <<>> /\ mode = ""
    /\ EmptyWalk
    /\ FreshRun

InitValidate ==
    /\ \/ \E s \in NameInputs : in_conf = [fn |-> "validate_project_name", arg |-> s]
       \/ \E s \in EmailInputs : in_conf = [fn |-> "validate_email", arg |-> s]
    /\ in_answers = <<>>
    /\ in_ret = <<>>
    /\ pc = "validate"
    /\ Idle

\* lines 31-50 applied to the argument
ValidateName ==
    /\ pc = "validate"
    /\ in_conf.fn = "validate_project_name"
    /\ in_ret' = <<validate_project_name(in_conf.arg)>>
    /\ pc' = "validated"
    /\ UNCHANGED <<fs, fs0, info, platform, chunks, walk_vars, run_vars, steps,
                   in_conf, in_answers>>

\* lines 13-28 applied to the argument
ValidateEmail ==
    /\ pc = "validate"
    /\ in_conf.fn = "validate_email"
    /\ in_ret' = <<validate_email(in_conf.arg)>>
    /\ pc' = "validated"
    /\ UNCHANGED <<fs, fs0, info, platform, chunks, walk_vars, run_vars, steps,
                   in_conf, in_answers>>

NextValidate == ValidateName \/ ValidateEmail

SpecValidate == InitValidate /\ [][NextValidate]_vars

(***************************************************************************)
(* SpecInput: get_user_input, one iteration of its loop per typed line.    *)
(***************************************************************************)
MaxAnswers == 2

LowerSeq ==
    <<"a", "b", "c", "d", "e", "f", "g", "h", "i", "j", "k", "l", "m",
      "n", "o", "p", "q", "r", "s", "t", "u", "v", "w", "x", "y", "z">>

UpperSeq ==
    <<"A", "B", "C", "D", "E", "F", "G", "H", "I", "J", "K", "L", "M",
      "N", "O", "P", "Q", "R", "S", "T", "U", "V", "W", "X", "Y", "Z">>

DigitSeq == <<"0", "1", "2", "3", "4", "5", "6", "7", "8", "9">>

RECURSIVE strip(_)
\* line 87: str.strip()
strip(s) ==
    IF s = <<>> THEN s
    ELSE IF Head(s) = " " THEN strip(Tail(s))
    ELSE IF s[Len(s)] = " " THEN strip(SubSeq(s, 1, Len(s) - 1))
    ELSE s

\* lines 93 and 95: str.lower()
lower(s) ==
    [i \in 1..Len(s) |->
        IF s[i] \in UpperChars
        THEN LowerSeq[CHOOSE k \in 1..26 : UpperSeq[k] = s[i]]
        ELSE s[i]]

RECURSIVE digits_value(_)
\* the number a string of digits denotes
digits_value(s) ==
    IF s = <<>> THEN 0
    ELSE 10 * digits_value(SubSeq(s, 1, Len(s) - 1))
            + (CHOOSE k \in 0..9 : DigitSeq[k + 1] = s[Len(s)])

\* line 103: int(user_input) does not raise ValueError
is_int(s) ==
    LET d == IF s # <<>> /\ s[1] \in {"+", "-"} THEN Tail(s) ELSE s
    IN  d # <<>> /\ AllIn(d, DigitChars)

\* line 103: int(user_input)
int_of(s) ==
    IF s[1] = "-" THEN 0 - digits_value(Tail(s))
    ELSE IF s[1] = "+" THEN digits_value(Tail(s))
    ELSE digits_value(s)

S_yes == {<<"y">>, <<"y", "e", "s">>, <<"t", "r", "u", "e">>, <<"1">>}
S_no == {<<"n">>, <<"n", "o">>, <<"f", "a", "l", "s", "e">>, <<"0">>}

\* line 114: validator(user_input)
call_validator(v, s) ==
    IF v = "validate_project_name" THEN validate_project_name(s) ELSE validate_email(s)

\* lines 89-90: an empty answer takes the default when there is one
with_default(conf, line) ==
    IF strip(line) = <<>> /\ conf.default # <<>> THEN conf.default ELSE strip(line)

\* lines 77-119: one iteration of the loop on the typed line; returned says
\* whether the function returned, value what it returned
get_user_input(conf, line) ==
    LET user_input == with_default(conf, line)
        again == [returned |-> FALSE, value |-> <<>>]
    IN  IF conf.is_bool
        THEN IF lower(user_input) \in S_yes THEN [returned |-> TRUE, value |-> TRUE]
             ELSE IF lower(user_input) \in S_no THEN [returned |-> TRUE, value |-> FALSE]
             ELSE again
        ELSE IF conf.choices # <<>>
        THEN IF is_int(user_input)
             THEN IF 0 <= int_of(user_input) - 1 /\ int_of(user_input) - 1 < Len(conf.choices)
                  THEN [returned |-> TRUE, value |-> conf.choices[int_of(user_input)]]
                  ELSE again
             ELSE IF user_input \in Range(conf.choices)
                  THEN [returned |-> TRUE, value |-> user_input]
                  ELSE again
        ELSE IF conf.validator # "none" /\ ~call_validator(conf.validator, user_input)
        THEN again
        ELSE [returned |-> TRUE, value |-> user_input]

S_app == <<"a", "p", "p">>
S_library == <<"l", "i", "b", "r", "a", "r", "y">>

\* the prompts of collect_project_info: project name (lines 130-133),
\* description (135-138), author name when neither git nor USER gives a
\* default (144-147), author email without a git default (149-153), project
\* type (162-166), a feature flag (188-192)
InputConfs ==
    {[default |-> <<>>, choices |-> <<>>, validator |-> "validate_project_name", is_bool |-> FALSE],
     [default |-> <<"d">>, choices |-> <<>>, validator |-> "none", is_bool |-> FALSE],
     [default |-> <<>>, choices |-> <<>>, validator |-> "none", is_bool |-> FALSE],
     [default |-> <<>>, choices |-> <<>>, validator |-> "validate_email", is_bool |-> FALSE],
     [default |-> S_library, choices |-> <<S_app, S_library>>, validator |-> "none", is_bool |-> FALSE],
     [default |-> <<"y">>, choices |-> <<>>, validator |-> "none", is_bool |-> TRUE],
     [default |-> <<>>, choices |-> <<>>, validator |-> "none", is_bool |-> TRUE]}

\* the lines the operator may type
AnswerLines ==
    {<<>>, <<" ">>, <<"y">>, <<" ", "Y", "E", "S", " ">>, <<"n">>, <<"x">>,
     <<"1">>, <<"2">>, <<"3">>, <<"0">>, <<"-", "1">>, S_app, S_library,
     S_my_lib, <<"T", "e", "s", "t">>, S_a_b_co}

InitInput ==
    /\ \E c \in InputConfs, n \in 1..MaxAnswers : \E typed \in [1..n -> AnswerLines] :
          /\ in_conf = c @@ [typed |-> typed]
          /\ in_answers = typed
    /\ in_ret = <<>>
    /\ pc = "prompt"
    /\ Idle

\* lines 77-119: the operator types the next line
Prompt ==
    /\ pc = "prompt"
    /\ in_answers # <<>>
    /\ \E r \in {get_user_input(in_conf, Head(in_answers))} :
          IF r.returned
          THEN in_ret' = <<r.value>> /\ pc' = "returned"
          ELSE UNCHANGED <<in_ret, pc>>
    /\ in_answers' = Tail(in_answers)
    /\ UNCHANGED <<fs, fs0, info, platform, chunks, walk_vars, run_vars, steps, in_conf>>

NextInput == Prompt

SpecInput == InitInput /\ [][NextInput]_vars

(***************************************************************************)
(* SpecVerify: verify_template_placeholders on a project tree.             *)
(***************************************************************************)
MaxScanFiles == 2

ScanDir == <<"P">>

\* files of the scanned tree, and one file outside it
ScanPaths ==
    {Join(ScanDir, P_README), Join(ScanDir, P_init), Join(ScanDir, P_notebook),
     Join(ScanDir, P_pyc), Join(ScanDir, <<".md">>), <<"Q", "/", "x", ".md">>}

ScanContents ==
    {<<"a">>, <<"{{", "UNKNOWN_FIELD", "}}">>, <<"a", "{{", "PROJECT_NAME", "}}", "CR", "LF">>,
     <<"{{", "unknown", "}}">>, <<"xFF", "{{", "UNKNOWN_FIELD", "}}">>, <<"{{", "}}">>}

InitVerify ==
    /\ \E paths \in SubsetsUpTo(ScanPaths, MaxScanFiles) \ {{}} :
          fs \in [paths -> ScanContents]
    /\ fs0 = fs
    /\ info = <<>>
    /\ platform = "posix"
    /\ chunks = <<>>
    /\ pc = "verify"
    /\ cwd = ScanDir
    /\ mode = "in_place"
    /\ EmptyWalk
    /\ FreshRun
    /\ NoPrompt

NextVerify == Verify

SpecVerify == InitVerify /\ [][NextVerify]_vars

(***************************************************************************)
(* Claims about the Placeholder Renderer (SpecRender).                     *)
(***************************************************************************)
TokenPN == placeholder("project_name")

RenderIn == fs0[RenderedPath]

RenderOut == fs[RenderedPath]

\* the file is one replace_template_vars opens and decodes as text
RenderIsText == suffix(RenderedPath) \notin BinarySuffixes /\ ~undecodable(RenderIn)

\* the text holds a token of a field other than project_name
HasOtherToken(t) == \E k \in KeySet \ {"project_name"} : Contains(t, placeholder(k))

\* the pieces of the text, each project_name token replaced by the name
ChunksWithName ==
    Flatten([i \in 1..Len(chunks) |-> IF chunks[i] = TokenPN THEN ProjectName ELSE chunks[i]])

C5_ValueNeverRescanned ==
    (pc = "rendered" /\ RenderIsText)
        => \A i \in 1..Len(chunks) : \A k \in KeySet, k2 \in KeySet :
              (k # k2 /\ chunks[i] = placeholder(k)
                  /\ Contains(str_of(info, k), placeholder(k2)))
                  => Contains(RenderOut, placeholder(k2))

\* C6 as stated: a text file that contains no placeholder token is left
\* identical by replace_template_vars.
C6_TokenFreeUnchanged ==
    (pc = "rendered" /\ \A k \in KeySet : ~Contains(RenderIn, placeholder(k)))
        => RenderOut = RenderIn

(***************************************************************************)
(* Claims about the Template Walker and the File Selector (SpecWalk).      *)
(***************************************************************************)
\* the fragment group each feature flag contributes when it is off
FragmentGroup(flag) ==
    CASE flag = "use_docker" -> {F_Dockerfile_dev, F_Dockerfile_data, F_docker_compose}
      [] flag = "use_pre_commit" -> {F_pre_commit}
      [] flag = "use_github_actions" -> {F_github}
      [] flag = "use_jupyter" -> {F_notebooks, F_Dockerfile_data}
      [] flag = "use_spark" -> {F_spark_utils, F_setup_spark}

ExclusionSetOf(inf) == UNION {FragmentGroup(fl) : fl \in {x \in FlagSet : ~inf[x]}}

SourceFiles == files_under(fs0, w_src)

\* the source files whose relative path contains no Exclusion Set fragment
Selected ==
    {p \in SourceFiles : \A sk \in ExclusionSetOf(info) : ~Contains(RelativeTo(p, w_src), sk)}

\* the relative path with its tokens resolved and a trailing .template dropped
ExpectedRel(rel) ==
    LET r == render(rel, info)
    IN  IF r[Len(r)] = ".template" /\ Len(Name(r)) > 1 THEN SubSeq(r, 1, Len(r) - 1) ELSE r

ExpectedDst(p) == Join(w_dst, ExpectedRel(RelativeTo(p, w_src)))

WalkDone == pc = "walk_done"

EmptyDestination == files_under(fs0, w_dst) = {}

\* the selected files, each with its rendered path
Targets == {<<p, ExpectedDst(p)>> : p \in Selected}

\* C1 as stated: after a walk into an empty destination the files under dst
\* correspond one-to-one to the non-excluded source files, each at its
\* rendered path.
C1_OneToOne ==
    (WalkDone /\ EmptyDestination)
        => \A M \in {Targets} :
              /\ files_under(fs, w_dst) = {e[2] : e \in M}
              /\ \A e \in M, g \in M : e # g => e[2] # g[2]

\* no two selected files share a rendered path and none is rendered to a
\* directory of another
DistinctTargets(M) == \A e \in M, g \in M : e # g => e[2] # g[2] /\ ~IsUnder(e[2], g[2])

\* C1 (amended): after a walk into an empty destination the files under dst
\* are exactly the rendered paths of the non-excluded source files, provided
\* none of those paths is a directory of another; the correspondence is
\* one-to-one provided they are also pairwise distinct.  For a two-file tree
\* with exactly one excluded file, dst holds exactly the other file.
C1_RenderedImage ==
    (WalkDone /\ EmptyDestination)
        => \A M \in {Targets} :
              /\ (\A e \in M, g \in M : ~IsUnder(e[2], g[2]))
                    => files_under(fs, w_dst) = {e[2] : e \in M}
              /\ DistinctTargets(M) => w_log = M
              /\ (Cardinality(SourceFiles) = 2 /\ Cardinality(M) = 1)
                    => files_under(fs, w_dst) = {e[2] : e \in M}

\* a two-file tree, one file excluded by a fragment inside its name, the other
\* written at a rendered path
C1_Witness ==
    /\ WalkDone /\ EmptyDestination
    /\ SourceFiles = {Join(w_src, P_notebooks_guide), Join(w_src, P_init)}
    /\ Selected = {Join(w_src, P_init)}
    /\ files_under(fs, w_dst) = {Join(w_dst, <<"src", "/", "my", "-", "lib", "/", "__init__", ".py">>)}

\* C7: the Exclusion Set is the union of the fragment groups of the flags that
\* are off; with all five flags on it is empty and no file is skipped.
C7_ExclusionByFlags ==
    /\ pc # "walk_begin" => skip_files = ExclusionSetOf(info)
    /\ (pc # "walk_begin" /\ \A fl \in FlagSet : info[fl]) => skip_files = {}
    /\ (WalkDone /\ \A fl \in FlagSet : info[fl])
          => \A p \in SourceFiles : IsUnder(p, w_dst) \/ \E e \in w_log : e[1] = p

\* all flags on: a notebook is copied; and a run with only use_jupyter off
C7_Witness ==
    /\ WalkDone
    /\ \A fl \in FlagSet : info[fl]
    /\ Join(w_src, P_notebook) \in SourceFiles
    /\ \E e \in w_log : e[1] = Join(w_src, P_notebook)

DstInsideSrc == IsUnder(w_dst, w_src)

\* the directory dst/<relative path of dst>
NestedDst == Join(w_dst, RelativeTo(w_dst, w_src))

\* C8 as stated: with dst inside src no file under dst is copied, every
\* non-excluded source file outside dst is rendered exactly once and nothing
\* is written under dst/<relative path of dst>.
C8_NothingNested ==
    DstInsideSrc
        => /\ \A e \in w_log : ~IsUnder(e[1], w_dst) /\ ~IsUnder(e[2], NestedDst)
           /\ WalkDone => \A p \in Selected :
                  IsUnder(p, w_dst) \/ Cardinality({e \in w_log : e[1] = p}) = 1

\* C8 (amended): with dst inside src no file under dst is ever copied or
\* rendered, files written by the walk included; the walk ends after at most
\* one iteration per file; every non-excluded source file outside dst is
\* rendered exactly once; a path under dst/<relative path of dst> is written
\* only as the rendered path of a source file outside dst.
C8_SelfCopyGuard ==
    DstInsideSrc
        => /\ \A e \in w_log :
                 /\ ~IsUnder(e[1], w_dst)
                 /\ e[1] \in SourceFiles
                 /\ IsUnder(e[2], NestedDst) => e[2] = ExpectedDst(e[1])
           /\ \A p \in DOMAIN fs : IsUnder(p, w_dst) /\ p \in DOMAIN fs0 => fs[p] = fs0[p]
           /\ Cardinality(w_yielded) <= 2 * Cardinality(w_first)
           /\ pc = "walk" => (w_first \subseteq w_yielded
                                \/ files_under(fs, w_src) \ w_yielded # {})
           /\ WalkDone => \A p \in Selected :
                  IsUnder(p, w_dst) \/ Cardinality({e \in w_log : e[1] = p}) = 1

\* dst inside src: a file that was under dst and a file the walk wrote there
\* were both yielded and skipped
C8_Witness ==
    /\ WalkDone /\ DstInsideSrc
    /\ Join(w_src, P_old) \in SourceFiles
    /\ \E e \in w_log : e[2] \in w_yielded
    /\ Join(w_src, P_old) \in w_yielded
    /\ Cardinality(w_log) = 1

\* removing entry r removes every path named by fragment fr
Covers(r, fr) == r = fr \/ IsUnder(fr, r)

\* C9 as stated: every fragment an off flag adds to the Exclusion Set is
\* covered by an entry of the Removal List, and a flag that is on adds nothing
\* to the base list.
C9_RemovalMirrorsExclusion ==
    /\ \A fl \in FlagSet : ~info[fl] =>
          \A fr \in FragmentGroup(fl) :
              \E i \in 1..Len(get_files_to_remove(info)) :
                  Covers(get_files_to_remove(info)[i], fr)
    /\ (\A fl \in FlagSet : info[fl]) =>
          Range(get_files_to_remove(info)) = Range(base_files_to_remove) \cup {R_docs}

(***************************************************************************)
(* Claims about the two workflows (Spec).                                  *)
(***************************************************************************)
\* the run reached its normal end
Completed == pc = "done"

\* the entries of the Removal List, as paths of the project directory
RemovalPaths == {Join(project_dir, e) : e \in Range(get_files_to_remove(info))}

\* C2 (as stated): when a workflow has run to completion, no path listed by
\* get_files_to_remove(info) exists in the project directory.
C2_RemovalListGone ==
    Completed => \A r \in RemovalPaths : ~exists(fs, r)

\* p is a Removal List path or lies under a Removal List directory
OnRemovalList(p) == \E r \in RemovalPaths : p = r \/ IsUnder(p, r)

\* the files the directory held when setup_in_place started that the Removal
\* List does not name
KeptFiles == {p \in files_under(fs0, cwd) : ~OnRemovalList(p)}

\* the placeholder-rendered form of the original file q
RenderedForm(q) == replace_template_vars((q :> fs0[q]), q, info, platform)[q]

\* the in-place workflow is under way
InPlace == mode = "in_place"

\* C3 (as stated): in setup_in_place, at every step, every file of the original
\* directory that the Removal List does not name still exists and holds its
\* original content or the rendered form of its original content.
C3_KeptFilesOriginalOrRendered ==
    InPlace => \A p \in KeptFiles :
        /\ p \in DOMAIN fs
        /\ fs[p] \in {fs0[p], RenderedForm(p)}

\* the contents the scratch copy can hold at the relative path of p besides
\* the rendered form of p: the generated CLAUDE.md, and the rendered form of
\* another file of the directory whose destination path is that of p
InstalledOver(p) ==
    (IF p = Join(cwd, P_CLAUDE) /\ info["setup_claude_md"]
        THEN {claude_content(info)} ELSE {})
    \cup {RenderedForm(q) : q \in {x \in files_under(fs0, cwd) \ {p} :
             /\ ~excluded(RelativeTo(x, cwd), compute_skip_files(info))
             /\ dst_path_of(x, cwd, cwd, info) = p}}

\* C3 (amended): in setup_in_place, at every step, every file of the original
\* directory that the Removal List does not name still exists; it holds its
\* original content or the rendered form of it, or, once the scratch copy has
\* been installed, what the scratch copy held at its path: the generated
\* CLAUDE.md or the rendered form of another file whose destination is that path.
C3_KeptFilesSurvive ==
    InPlace => \A p \in KeptFiles :
        /\ p \in DOMAIN fs
        /\ \/ fs[p] \in {fs0[p], RenderedForm(p)}
           \/ /\ "copy_back" \in Range(steps)
              /\ fs[p] \in InstalledOver(p)

\* an in-place run has ended; it kept a file unchanged and installed the
\* generated CLAUDE.md over the original one
C3_Witness ==
    /\ InPlace /\ Completed
    /\ Join(cwd, P_CLAUDE) \in KeptFiles
    /\ fs[Join(cwd, P_CLAUDE)] = claude_content(info)
    /\ fs[Join(cwd, P_CLAUDE)] # fs0[Join(cwd, P_CLAUDE)]
    /\ \E p \in KeptFiles \ {Join(cwd, P_CLAUDE)} : fs[p] = fs0[p]

\* the commands whose failure is caught, and the warning each one prints
SoftCommands == Range(GitCommands) \cup {"uv sync", "pre-commit install"}

WarningOf(c) ==
    CASE c \in Range(GitCommands) -> "Git initialization failed"
      [] c = "uv sync" -> "Development environment setup failed"
      [] OTHER -> "Pre-commit installation skipped"

\* the soft commands that exited with a non-zero code so far
FailedNonZero == {c \in SoftCommands \cap DOMAIN outcomes : outcomes[c] = "nonzero"}

\* no command timed out or was missing
OnlyExitCodes == \A c \in DOMAIN outcomes : outcomes[c] \in {"ok", "nonzero"}

\* the steps that follow a caught failure; each one is enabled whenever the
\* run is at it
StepsAfterCommands == {"setup_development_environment", "cleanup", "verify"}

\* C10: a non-zero exit of a version-control command, of the dependency sync
\* or of the hook install never kills the run: its warning is printed, the run
\* stands at a step that can be taken until it ends, and at its end the verification scan (and,
\* in the new-directory workflow, the cleanup) was executed after the failure
\* and the exit status is 0.
C10_NonZeroExitIsWarning ==
    /\ exit_status # "CalledProcessError"
    /\ \A c \in FailedNonZero : WarningOf(c) \in warnings
    /\ (FailedNonZero # {} /\ OnlyExitCodes) =>
          /\ pc # "crashed"
          /\ pc \in StepsAfterCommands \cup {"done"}
          /\ pc = "done" =>
                /\ exit_status = "0"
                /\ steps[Len(steps)] = "verify"
                /\ mode = "new" => steps[Len(steps) - 1] = "cleanup"

\* a new-directory run ended normally although git commit, and then the
\* dependency sync, exited with a non-zero code
C10_Witness ==
    /\ Completed /\ mode = "new"
    /\ {"git commit", "uv sync"} \subseteq FailedNonZero
    /\ "cleanup" \in Range(steps)

\* the commands that timed out so far
TimedOut == {c \in DOMAIN outcomes : outcomes[c] = "timeout"}

\* C11 (as stated): a timeout of an external call ends like a non-zero exit of
\* that call: for git, uv sync and pre-commit install the warning is printed
\* and the run goes on; for uv --version the run takes the fatal exit 1.
C11_TimeoutLikeNonZero ==
    \A c \in TimedOut :
        IF c = "uv --version"
        THEN pc = "exited" /\ exit_status = "1"
        ELSE WarningOf(c) \in warnings /\ pc # "crashed"

\* the operator declined to overwrite the existing destination
Declined == pc = "cancelled"

\* C12 (as stated): when the operator declines the overwrite prompt the
\* process ends with a nonzero exit status, the existing destination is
\* unchanged, no file is walked or written and no external command is run.
C12_DeclineExitsNonZero ==
    Declined =>
        /\ exit_status \notin {"0", "running"}
        /\ fs = fs0
        /\ "walk" \notin Range(steps)
        /\ DOMAIN outcomes = {"uv --version"}

\* uv is absent or uv --version exited with a non-zero code
UvUnusable ==
    /\ "uv --version" \in DOMAIN outcomes
    /\ outcomes["uv --version"] \in {"nonzero", "missing"}

\* C13: if uv is absent or uv --version exits non-zero, main ends with exit
\* status 1 after printing the install instruction; no prompt was shown, no
\* file was created, modified or deleted, no other command was run and no
\* further step is taken.
C13_MissingUvIsFatal ==
    /\ UvUnusable =>
          /\ pc = "exited"
          /\ exit_status = "1"
          /\ "Missing required tool: uv" \in warnings
          /\ ~prompted
          /\ fs = fs0
          /\ DOMAIN outcomes = {"uv --version"}
          /\ steps = <<"check_dependencies">>
    /\ pc = "exited" => UvUnusable

\* the uv binary is absent and the run has ended
C13_Witness ==
    /\ pc = "exited"
    /\ outcomes = ("uv --version" :> "missing")
    /\ exit_status = "1"

\* the source files the walk has to copy that it has not copied
NotCopied == {p \in Selected : ~IsUnder(p, w_dst) /\ ~\E e \in w_log : e[1] = p}

\* C14 (as stated): an OS error on a single file never aborts the tree
\* operation: the walk does not raise and, when it is over, every other file
\* was processed.
C14_FileErrorNeverAborts ==
    /\ exit_status # "OSError"
    /\ pc = "crashed" => NotCopied = {}

(***************************************************************************)
(* Claims about the validators (SpecValidate).                             *)
(***************************************************************************)
\* the validator fn has returned
Validated(fn) == pc = "validated" /\ in_conf.fn = fn

\* C16 (as stated): validate_project_name accepts exactly the names that are
\* not reserved and either have length 2 to 214 and match
\* ^[a-z][a-z0-9-]*[a-z0-9]$ or are a single lowercase letter; it accepts
\* my-lib, a and x2y and rejects Test, -bad, test, ab-, the empty string and
\* a 215-character string.
C16_AcceptsExactly ==
    Validated("validate_project_name") =>
        \A name \in {in_conf.arg} :
            /\ in_ret[1] =
                  (/\ name \notin reserved_names
                   /\ \/ Len(name) \in 2..214 /\ name_match(name)
                      \/ Len(name) = 1 /\ name[1] \in LowerChars)
            /\ name \in {S_my_lib, <<"a">>, <<"x", "2", "y">>} => in_ret[1]
            /\ name \in {<<"T", "e", "s", "t">>, <<"-", "b", "a", "d">>, S_test,
                         <<"a", "b", "-">>, <<>>, Rep("a", 215)} => ~in_ret[1]

\* the part of the address before its last @, and the part after it
LocalPart(e) == SubSeq(e, 1, last_at(e) - 1)

DomainPart(e) == SubSeq(e, last_at(e) + 1, Len(e))

\* local@domain with a dot inside the domain
HasEmailShape(e) ==
    /\ last_at(e) > 1
    /\ \E j \in 2..(Len(DomainPart(e)) - 1) : DomainPart(e)[j] = "."

\* C17: validate_email accepts an address only if its length is 5 to 254, it
\* has the local@domain shape with a dotted domain, its local part has at
\* most 64 characters and its domain at most 253; it accepts a@b.co and
\* rejects not-an-email, every 255-character address and every address whose
\* local part has 65 characters.
C17_EmailAcceptedOnlyIf ==
    Validated("validate_email") =>
        \A e \in {in_conf.arg} :
            /\ in_ret[1] =>
                  /\ Len(e) \in 5..254
                  /\ HasEmailShape(e)
                  /\ Len(LocalPart(e)) <= 64
                  /\ Len(DomainPart(e)) <= 253
            /\ e = S_a_b_co => in_ret[1]
            /\ e = S_not_an_email => ~in_ret[1]
            /\ Len(e) = 255 => ~in_ret[1]
            /\ (last_at(e) > 0 /\ Len(LocalPart(e)) = 65) => ~in_ret[1]

\* an address with a local part of 64 characters was accepted
C17_Witness ==
    /\ Validated("validate_email")
    /\ Len(LocalPart(in_conf.arg)) = 64
    /\ in_ret = <<TRUE>>

(***************************************************************************)
(* Claims about the prompt (SpecInput).                                    *)
(***************************************************************************)
\* the lines typed so far
Consumed == SubSeq(in_conf.typed, 1, Len(in_conf.typed) - Len(in_answers))

\* the answer a typed line stands for: stripped, the default when empty
AnswerOf(line) ==
    IF strip(line) = <<>> /\ in_conf.default # <<>> THEN in_conf.default ELSE strip(line)

\* the answer is a valid one for the prompt
ValidAnswer(a) ==
    IF in_conf.is_bool THEN lower(a) \in S_yes \cup S_no
    ELSE IF in_conf.choices # <<>>
    THEN IF is_int(a) THEN int_of(a) \in 1..Len(in_conf.choices)
         ELSE a \in Range(in_conf.choices)
    ELSE /\ in_conf.validator # "none" => call_validator(in_conf.validator, a)
         /\ a # <<>>

\* C15 (as stated): get_user_input returns only a valid answer and re-prompts
\* on every invalid one: a boolean for a boolean prompt, for a choice prompt
\* the k-th choice on the number k and the choice itself on free text, a value
\* the validator accepts, and never the empty string when there is no default.
C15_ReturnsOnlyValid ==
    /\ pc = "prompt" => \A i \in 1..Len(Consumed) : ~ValidAnswer(AnswerOf(Consumed[i]))
    /\ pc = "returned" =>
          \A a \in {AnswerOf(Consumed[Len(Consumed)])} :
              /\ \A i \in 1..(Len(Consumed) - 1) : ~ValidAnswer(AnswerOf(Consumed[i]))
              /\ ValidAnswer(a)
              /\ IF in_conf.is_bool THEN in_ret[1] \in BOOLEAN
                 ELSE IF in_conf.choices # <<>>
                 THEN /\ in_ret[1] \in Range(in_conf.choices)
                      /\ is_int(a) => in_ret[1] = in_conf.choices[int_of(a)]
                      /\ ~is_int(a) => in_ret[1] = a
                 ELSE in_ret[1] = a /\ (in_conf.default = <<>> => in_ret[1] # <<>>)

(***************************************************************************)
(* Claims about the verification scan (SpecVerify).                        *)
(***************************************************************************)
\* the extensions the scan looks at
CheckedExtensions == {".py", ".md", ".yml", ".yaml", ".toml", ".txt", ".sh", ".json"}

\* the data holds a token {{NAME}} with NAME made of capitals and underscores
HoldsToken(d) ==
    \E i \in 1..(Len(d) - 2) : d[i] = "{{" /\ d[i + 1] \in UpperNames /\ d[i + 2] = "}}"

\* the files of the project directory with a checked extension and a token
Leftover == {p \in DOMAIN fs0 : /\ IsUnder(p, ScanDir)
                               /\ suffix(p) \in CheckedExtensions
                               /\ HoldsToken(fs0[p])}

ScanDone == pc = "done"

\* C18 (as stated): the scan returns exactly the relative paths of the files
\* under the project directory that have a checked extension and whose
\* content holds a token {{UPPER_SNAKE_NAME}}, and modifies no file.
C18_ReportsExactly ==
    ScanDone =>
        /\ report = {RelativeTo(p, ScanDir) : p \in Leftover}
        /\ fs = fs0

\* C18 (amended): the scan returns exactly the relative paths of the files
\* under the project directory that have a checked extension, decode as
\* UTF-8 and hold a token {{UPPER_SNAKE_NAME}}; a .md file with a leftover
\* {{UNKNOWN_FIELD}} is in the list, a tree without leftover token yields the
\* empty list, and the scan modifies no file.
C18_ReportsReadable ==
    ScanDone =>
        /\ report = {RelativeTo(p, ScanDir) : p \in {q \in Leftover : "xFF" \notin Range(fs0[q])}}
        /\ (Join(ScanDir, P_README) \in DOMAIN fs0
              /\ fs0[Join(ScanDir, P_README)] = <<"{{", "UNKNOWN_FIELD", "}}">>)
                 => P_README \in report
        /\ Leftover = {} => report = {}
        /\ fs = fs0

\* a .md file with a leftover {{UNKNOWN_FIELD}} was reported, a file that
\* does not decode was not
C18_Witness ==
    /\ ScanDone
    /\ report = {P_README}
    /\ fs0[Join(ScanDir, P_README)] = <<"{{", "UNKNOWN_FIELD", "}}">>
    /\ \E p \in DOMAIN fs0 : suffix(p) = ".py" /\ "xFF" \in Range(fs0[p])

(***************************************************************************)
(* Claims about the choice and the order of the steps (Spec).              *)
(***************************************************************************)
\* C19 (as stated): the in-place workflow runs only when setup_project.py,
\* copier.yml and src/{{PROJECT_NAME}} all exist in the current directory; if
\* a marker is missing main uses the new-directory workflow.
C19_InPlaceOnlyInTemplate ==
    InPlace => is_template_repo(fs0, cwd)

\* the steps of the new-directory workflow after the destination check
NewDirectorySteps ==
    <<"walk", "create_claude_md", "initialize_git", "setup_development_environment",
      "cleanup", "verify">>

\* the steps main runs before the walk
Preamble == <<"check_dependencies", "collect", "detect", "check_destination">>

\* the external commands in the order the workflow runs them
CommandOrder ==
    <<"uv --version">> \o GitCommands \o <<"uv sync", "pre-commit install">>

GitFiles == files_under(fs0, Join(cwd, <<".git">>))

\* the positions of step s in the run so far
StepIndexes(s) == {i \in 1..Len(steps) : steps[i] = s}

\* C21 (as stated): in the in-place workflow, if a .git directory already
\* exists then no version-control command (init, add, commit, checkout) is run
\* and every file under .git has the same content at the end of the workflow as
\* at the start; if no .git directory exists, version control is initialised
\* exactly once, after the scratch files were copied back.
C21_GitPreservedOrInitialisedOnce ==
    (InPlace /\ Completed) =>
        IF is_git_initialized(fs0, cwd)
        THEN /\ Range(GitCommands) \cap DOMAIN outcomes = {}
             /\ \A p \in GitFiles : p \in DOMAIN fs /\ fs[p] = fs0[p]
        ELSE /\ Cardinality(StepIndexes("initialize_git")) = 1
             /\ \E i \in StepIndexes("copy_back") :
                   \A j \in StepIndexes("initialize_git") : i < j

(***************************************************************************)
(* Claims about the documentation directory (Spec).                        *)
(***************************************************************************)
\* the three template documents
TemplateDocuments == {R_docs_project_setup, R_docs_repository_setup, R_docs_labels}

\* the files of the documentation directory that are not template documents
OtherDocs ==
    {p \in files_under(fs, Join(project_dir, R_docs)) :
        RelativeTo(p, project_dir) \notin TemplateDocuments}

\* C22 (as stated): cleanup_template_files removes the documentation
\* directory only when every file it contains is itself on the Removal List:
\* a file of docs other than the three template documents still exists, with
\* its content intact, after the cleanup step.
C22_CleanupKeepsOtherDocs ==
    [][(pc = "cleanup" /\ pc' # "cleanup") =>
          \A p \in OtherDocs : p \in DOMAIN fs' /\ fs'[p] = fs[p]]_vars

(***************************************************************************)
(* Claims about the order of the replacements (SpecRender).                *)
(***************************************************************************)
\* the keys in the opposite order
ReversedKeys == [i \in 1..Len(Keys) |-> Keys[Len(Keys) + 1 - i]]

\* orders in which the fields can be replaced: that of the record, its
\* reverse, and the two with author_name moved to the front
ReplacementOrders ==
    {Keys, ReversedKeys,
     <<"author_name">> \o SelectSeq(Keys, LAMBDA k : k # "author_name"),
     <<"author_name">> \o SelectSeq(ReversedKeys, LAMBDA k : k # "author_name")}

\* no field value contains a placeholder token of any field
ValuesTokenFree ==
    \A k \in KeySet, k2 \in KeySet : ~Contains(str_of(info, k), placeholder(k2))

\* C23 (as stated): if no field value of the Configuration Record contains a
\* placeholder token of any field, the rendered result of a text is the same
\* for every order in which the fields are replaced.
C23_ReplacementCommutes ==
    (pc = "rendered" /\ RenderIsText /\ ValuesTokenFree)
        => \A order \in ReplacementOrders :
              encode_text(render_in_order(decode_text(RenderIn), info, order, 1), platform)
                  = RenderOut

(***************************************************************************)
(* Claims about what the in-place workflow leaves behind (Spec).           *)
(***************************************************************************)
\* the data holds a placeholder token of a Configuration Record field
HoldsFieldToken(d) == \E k \in KeySet : Contains(d, placeholder(k))

\* the files of the original template tree that are still there and are text
OriginalTextFiles ==
    {p \in files_under(fs0, cwd) \cap DOMAIN fs :
        suffix(p) \notin BinarySuffixes /\ ~undecodable(fs[p])}

\* C24 (as stated): after setup_in_place completes on a template checkout,
\* the project directory contains no file whose relative path contains the
\* token {{PROJECT_NAME}} and no text file of the original template whose
\* content still contains a token of a Configuration Record field; the
\* verification scan that follows reports no file of the original tree.
C24_NoTemplateResidue ==
    (InPlace /\ Completed /\ is_template_repo(fs0, cwd)) =>
        /\ \A p \in files_under(fs, cwd) : ~Contains(RelativeTo(p, cwd), TokenPN)
        /\ \A p \in OriginalTextFiles : ~HoldsFieldToken(fs[p])
        /\ \A p \in files_under(fs0, cwd) : RelativeTo(p, cwd) \notin report

====
